---- MODULE Spec2Model ----
(***************************************************************************)
(* The page-load lifecycle of PageComponent (src/app/pages/basePage.tsx):  *)
(* the constructor's initial timer, loadPageData with its Promise.all      *)
(* aggregate, the retry timers, handleError and render.                    *)
(***************************************************************************)
EXTENDS Integers, Sequences, FiniteSets, TLC

\* ---------------------------------------------------------------- constants
MAX_RETRIES == 5
INITIAL_DELAY == 10
BASE_DELAY == 100

\* ------------------------------------------------------------------- bounds
\* largest number of promises createLoaders returns in one array
MaxOps == 2
\* rendering faults injected in one behaviour
MaxFaults == 2
\* cap on producer invocations explored (the code itself stops at 6)
MaxInvocations == 8

VARIABLES
    state,        \* this.state: a function from the keys that are set
    timers,       \* pending setTimeout callbacks (all run loadPageData): their delays
    cycles,       \* pending Promise.all aggregates, one per load cycle in progress
    orphans,      \* promises still pending whose aggregate has already rejected
    mounted,      \* the page instance has not been torn down
    invocations,  \* history: number of createLoaders() calls so far
    delays,       \* history: the delays of the retry timers scheduled so far
    returned,     \* history: what createLoaders() returned on its latest call
    outcomes,     \* history: per invocation the cycle's result:
                  \* "empty", "pending", "ok" or "fail"
    faults,       \* history: number of componentDidCatch calls so far
    lateRuns,     \* history: number of loadPageData() runs after the teardown
    cfgIn,        \* federatedConfig: what the config service and the route hold
    cfgOut        \* federatedConfig: what the call produced

vars == <<state, timers, cycles, orphans, mounted, invocations, returned, delays,
          outcomes, faults, lateRuns, cfgIn, cfgOut>>

pageVars == <<state, timers, cycles, orphans, mounted, invocations, returned, delays,
              outcomes, faults, lateRuns>>

configVars == <<cfgIn, cfgOut>>

\* ------------------------------------------------------------ state helpers
NoState == [k \in {} |-> TRUE]

setMultiState(s, upd) ==
    [k \in DOMAIN s \cup DOMAIN upd |-> IF k \in DOMAIN upd THEN upd[k] ELSE s[k]]

setSingleState(s, key, value) ==
    [k \in DOMAIN s \cup {key} |-> IF k = key THEN value ELSE s[k]]

\* what a subclass's initializePageState() may say about the base fields
PageStates == {NoState, [isLoading |-> FALSE], [isLoading |-> TRUE]}

initializeState_SpreadLast(pageState) == setMultiState([isLoading |-> TRUE], pageState)

initializeState(pageState) == setMultiState(pageState, [isLoading |-> TRUE])

isLoading(s) == IF "isLoading" \in DOMAIN s THEN s.isLoading ELSE FALSE

isError(s) == IF "isError" \in DOMAIN s THEN s.isError ELSE FALSE

getRetries(s) == IF "pageLoadRetries" \in DOMAIN s THEN s.pageLoadRetries ELSE 0

incrementRetries_NoSave(s) == s

incrementRetries_ByTwo(s) == setSingleState(s, "pageLoadRetries", getRetries(s) + 2)

incrementRetries(s) == setSingleState(s, "pageLoadRetries", getRetries(s) + 1)

handleError_ClearsLoading(s, errorType, error, errorMessage) ==
    setMultiState(s, [error |-> [error |-> error, errorMessage |-> errorMessage,
                                 type |-> errorType],
                      isError |-> TRUE,
                      isLoading |-> FALSE])

handleError_ResetsRetries(s, errorType, error, errorMessage) ==
    setMultiState(s, [error |-> [error |-> error, errorMessage |-> errorMessage,
                                 type |-> errorType],
                      isError |-> TRUE,
                      pageLoadRetries |-> 0])

handleError(s, errorType, error, errorMessage) ==
    setMultiState(s, [error |-> [error |-> error, errorMessage |-> errorMessage,
                                 type |-> errorType],
                      isError |-> TRUE])

handleServerError_AsReact(s, error, errorMessage) ==
    handleError(s, "React", error, errorMessage)

handleServerError_ClearsLoading(s, error, errorMessage) ==
    setSingleState(handleError(s, "Server", error, errorMessage), "isLoading", FALSE)

handleServerError(s, error, errorMessage) ==
    handleError(s, "Server", error, errorMessage)

\* ------------------------------------------------------------------- render
render_LoadingFirst(s) ==
    IF isLoading(s) THEN [view |-> "Spinner"]
    ELSE IF isError(s) THEN [view |-> "ErrorPage", error |-> s.error]
    ELSE [view |-> "renderPage"]

render(s) ==
    IF isError(s) THEN [view |-> "ErrorPage", error |-> s.error]
    ELSE IF isLoading(s) THEN [view |-> "Spinner"]
    ELSE [view |-> "renderPage"]

\* ----------------------------------------------------------------- producer
\* createLoaders(): null, one promise, or an array of 0..MaxOps promises
NotCalled == [kind |-> "none", n |-> 0]

Loaders ==
    {[kind |-> "null", n |-> 0], [kind |-> "promise", n |-> 1]}
        \cup {[kind |-> "array", n |-> n] : n \in 0..MaxOps}

\* the array loadPageData ends up with (a single promise is wrapped)
LoaderCount(loaders) == IF loaders.kind = "array" THEN loaders.n ELSE 1

NoLoaders_NullOnly(loaders) == loaders.kind = "null"

NoLoaders(loaders) ==
    \/ loaders.kind = "null"
    \/ LoaderCount(loaders) = 0

RECURSIVE Pow2(_)
Pow2(n) == IF n = 0 THEN 1 ELSE 2 * Pow2(n - 1)

RetryDelay_Linear(retries) == (retries + 1) * BASE_DELAY

RetryDelay_PostIncrement(retries) == Pow2(retries + 1) * BASE_DELAY

RetryDelay(retries) == Pow2(retries) * BASE_DELAY

CanRetry_Inclusive(retries) == retries <= MAX_RETRIES

CanRetry(retries) == retries < MAX_RETRIES

\* Promise.all fulfils when every promise of the array has resolved
AllResolved_Any(ops) == \E j \in DOMAIN ops : ops[j] = "resolved"

AllResolved(ops) == \A j \in DOMAIN ops : ops[j] = "resolved"

OpError(attempt, op) == [source |-> "operation", attempt |-> attempt, op |-> op]

RenderError(n) == [source |-> "render", attempt |-> 0, op |-> n]

RemoveAt(seq, i) == [j \in 1..(Len(seq) - 1) |-> IF j < i THEN seq[j] ELSE seq[j + 1]]

\* the .catch handler of loadPageData: the new state and the timers it adds
OnRejected_NoElse(s, error) ==
    IF CanRetry(getRetries(s))
    THEN [state |-> incrementRetries(s), timers |-> <<RetryDelay(getRetries(s))>>]
    ELSE [state |-> s, timers |-> <<>>]

OnRejected_TwoTimers(s, error) ==
    IF CanRetry(getRetries(s))
    THEN [state |-> incrementRetries(s),
          timers |-> <<RetryDelay(getRetries(s)), RetryDelay(getRetries(s))>>]
    ELSE [state |-> handleServerError(s, error, "Error loading page data."),
          timers |-> <<>>]

OnRejected(s, error) ==
    IF CanRetry(getRetries(s))
    THEN [state |-> incrementRetries(s), timers |-> <<RetryDelay(getRetries(s))>>]
    ELSE [state |-> handleServerError(s, error, "Error loading page data."),
          timers |-> <<>>]

\* the .then handler of loadPageData
OnFulfilled_ClearsError(s) == setMultiState(s, [isLoading |-> FALSE, isError |-> FALSE])

OnFulfilled(s) == setSingleState(s, "isLoading", FALSE)

\* ---------------------------------------------------------- federatedConfig
\* strings are sequences of one-character strings
Placeholder == <<":", "t", "e", "n", "a", "n", "t", "I", "d">>

RegistrySuffix == <<"/", "r", "e", "g", "i", "s", "t", "r", "y">>

NavPrefix == <<"/", "t", "/">>

\* longest route parameter explored
MaxParamLen == 3

\* the characters a route parameter is made of
ParamChars == {"a", "$", "&", "%", "2", "4"}

RECURSIVE SeqsUpTo(_, _)
SeqsUpTo(S, n) ==
    IF n = 0 THEN {<<>>}
    ELSE LET shorter == SeqsUpTo(S, n - 1) IN
         shorter \cup {Append(q, x) : q \in {r \in shorter : Len(r) = n - 1}, x \in S}

\* this.props.match.params["tenantId"]
Params == SeqsUpTo(ParamChars, MaxParamLen) \ {<<>>}

\* registryApisUrl(): "h/t/:tenantId", "h/a" and "h/:tenantId/:tenantId"
Templates ==
    { <<"h", "/", "t", "/">> \o Placeholder,
      <<"h", "/", "a">>,
      <<"h", "/">> \o Placeholder \o <<"/">> \o Placeholder }

\* registryConfig(): the sections artifacts and ui are there or not
Configs ==
    { [k \in D |-> IF k = "artifacts"
                   THEN [url |-> <<"o">>, type |-> "rest"]
                   ELSE [navPrefixPath |-> <<>>, contextPath |-> <<"/">>]]
      : D \in SUBSET {"artifacts", "ui"} }

NoInput == [template |-> <<>>, param |-> <<>>, config |-> NoState]

NotDerived == [called |-> FALSE, threw |-> FALSE, tenantId |-> <<>>, config |-> NoState]

IsHex(ch) == ch \in {"2", "4", "a"}

HexValue(ch) == CASE ch = "2" -> 2 [] ch = "4" -> 4 [] OTHER -> 10

\* the character of an ASCII code that two hexadecimal digits of ParamChars spell
CharOf(code) ==
    CASE code = 34 -> "\""
      [] code = 36 -> "$"
      [] code = 42 -> "*"
      [] code = 66 -> "B"
      [] code = 68 -> "D"
      [] OTHER -> "J"

\* decodeURIComponent: the decoded string, or a URIError for a "%" that is
\* not followed by two hexadecimal digits or that spells a lone byte >= 0x80
RECURSIVE decodeURIComponent(_)
decodeURIComponent(str) ==
    IF str = <<>> THEN [ok |-> TRUE, value |-> <<>>]
    ELSE IF Head(str) # "%"
    THEN LET rest == decodeURIComponent(Tail(str)) IN
         IF rest.ok THEN [ok |-> TRUE, value |-> <<Head(str)>> \o rest.value]
         ELSE rest
    ELSE IF Len(str) < 3 \/ ~IsHex(str[2]) \/ ~IsHex(str[3])
    THEN [ok |-> FALSE, value |-> <<>>]
    ELSE LET code == 16 * HexValue(str[2]) + HexValue(str[3])
             rest == decodeURIComponent(SubSeq(str, 4, Len(str))) IN
         IF code >= 128 THEN [ok |-> FALSE, value |-> <<>>]
         ELSE IF rest.ok THEN [ok |-> TRUE, value |-> <<CharOf(code)>> \o rest.value]
         ELSE rest

getPathParam(param) == decodeURIComponent(param)

\* the first position at which pat occurs in str, 0 when it does not
IndexOf(str, pat) ==
    LET hits == {i \in 1..(Len(str) - Len(pat) + 1) :
                    SubSeq(str, i, i + Len(pat) - 1) = pat} IN
    IF hits = {} THEN 0 ELSE CHOOSE i \in hits : \A h \in hits : i <= h

\* the grave accent (U+0060), which cannot be written in a string here
Grave == "grave"

\* the replacement text of String.prototype.replace with a string pattern:
\* "$$" is "$", "$&" the match, "$" + grave accent what precedes it, "$'"
\* what follows it; any other "$" stands for itself (a string pattern has
\* no capture groups)
RECURSIVE GetSubstitution(_, _, _, _)
GetSubstitution(repl, matched, before, after) ==
    IF repl = <<>> THEN <<>>
    ELSE IF Head(repl) = "$" /\ Len(repl) >= 2 /\ repl[2] \in {"$", "&", Grave, "'"}
    THEN (CASE repl[2] = "$" -> <<"$">>
            [] repl[2] = "&" -> matched
            [] repl[2] = Grave -> before
            [] OTHER -> after)
         \o GetSubstitution(SubSeq(repl, 3, Len(repl)), matched, before, after)
    ELSE <<Head(repl)>> \o GetSubstitution(Tail(repl), matched, before, after)

\* str.replace(pat, repl) with strings: the first occurrence only
replace(str, pat, repl) ==
    LET i == IndexOf(str, pat) IN
    IF i = 0 THEN str
    ELSE LET before == SubSeq(str, 1, i - 1)
             after == SubSeq(str, i + Len(pat), Len(str)) IN
         before \o GetSubstitution(repl, pat, before, after) \o after

navPath(tenantId) == NavPrefix \o tenantId

\* federatedConfig(): tenantId() throws what decodeURIComponent throws,
\* before the configuration is touched
federatedConfig(in) ==
    LET decoded == getPathParam(in.param) IN
    IF ~decoded.ok
    THEN [called |-> TRUE, threw |-> TRUE, tenantId |-> <<>>, config |-> in.config]
    ELSE LET tenantId == decoded.value
             registryApi == replace(in.template \o RegistrySuffix, Placeholder, tenantId)
             withUrl == IF "artifacts" \in DOMAIN in.config
                        THEN [in.config EXCEPT !.artifacts.url = registryApi]
                        ELSE in.config
             withNav == IF "ui" \in DOMAIN withUrl
                        THEN [withUrl EXCEPT !.ui.navPrefixPath = navPath(tenantId)]
                        ELSE withUrl IN
         [called |-> TRUE, threw |-> FALSE, tenantId |-> tenantId, config |-> withNav]

\* --------------------------------------------------------------------- Init
\* the page as the constructor leaves it
PageInit ==
    /\ \E pageState \in PageStates : state = initializeState(pageState)
    /\ timers = <<INITIAL_DELAY>>
    /\ cycles = {}
    /\ orphans = 0
    /\ mounted = TRUE
    /\ invocations = 0
    /\ returned = NotCalled
    /\ delays = <<>>
    /\ outcomes = <<>>
    /\ faults = 0
    /\ lateRuns = 0

Init ==
    /\ PageInit
    /\ cfgIn = NoInput
    /\ cfgOut = NotDerived

\* ------------------------------------------------------------------ actions
\* a timer fires and runs loadPageData(); the producer returns `loaders`
loadPageData(i, loaders) ==
    /\ i \in 1..Len(timers)
    /\ invocations < MaxInvocations
    /\ timers' = RemoveAt(timers, i)
    /\ invocations' = invocations + 1
    /\ returned' = loaders
    /\ IF NoLoaders(loaders)
       THEN /\ state' = setSingleState(state, "isLoading", FALSE)
            /\ cycles' = cycles
            /\ outcomes' = Append(outcomes, "empty")
       ELSE /\ state' = setSingleState(state, "isLoading", TRUE)
            /\ cycles' = cycles \cup
                 {[attempt |-> invocations + 1,
                   ops |-> [j \in 1..LoaderCount(loaders) |-> "pending"]]}
            /\ outcomes' = Append(outcomes, "pending")
    /\ lateRuns' = IF mounted THEN lateRuns ELSE lateRuns + 1
    /\ UNCHANGED <<orphans, mounted, delays, faults, configVars>>

\* promise j of cycle c resolves; when it was the last one the aggregate
\* fulfils and the .then handler runs
OpResolve(c, j) ==
    /\ c \in cycles
    /\ j \in DOMAIN c.ops
    /\ c.ops[j] = "pending"
    /\ LET ops == [c.ops EXCEPT ![j] = "resolved"] IN
       IF AllResolved(ops)
       THEN /\ state' = OnFulfilled(state)
            /\ cycles' = cycles \ {c}
            /\ orphans' = orphans
                 + Cardinality({k \in DOMAIN ops : ops[k] = "pending"})
            /\ outcomes' = [outcomes EXCEPT ![c.attempt] = "ok"]
       ELSE /\ cycles' = (cycles \ {c}) \cup {[c EXCEPT !.ops = ops]}
            /\ UNCHANGED <<state, orphans, outcomes>>
    /\ UNCHANGED <<timers, mounted, invocations, returned, delays, faults, lateRuns,
                   configVars>>

\* promise j of cycle c rejects: the aggregate rejects at once with that
\* error and the .catch handler runs; the other promises are left behind
OpReject(c, j) ==
    /\ c \in cycles
    /\ j \in DOMAIN c.ops
    /\ c.ops[j] = "pending"
    /\ LET r == OnRejected(state, OpError(c.attempt, j)) IN
       /\ state' = r.state
       /\ timers' = timers \o r.timers
       /\ delays' = delays \o r.timers
    /\ cycles' = cycles \ {c}
    /\ orphans' = orphans
         + Cardinality({k \in DOMAIN c.ops : k # j /\ c.ops[k] = "pending"})
    /\ outcomes' = [outcomes EXCEPT ![c.attempt] = "fail"]
    /\ UNCHANGED <<mounted, invocations, returned, faults, lateRuns, configVars>>

\* a promise of an already rejected aggregate settles: nobody listens
OrphanSettles ==
    /\ orphans > 0
    /\ orphans' = orphans - 1
    /\ UNCHANGED <<state, timers, cycles, mounted, invocations, returned, delays,
                   outcomes, faults, lateRuns, configVars>>

\* React reports a rendering fault of the mounted page
componentDidCatch ==
    /\ mounted
    /\ faults < MaxFaults
    /\ state' = handleError(state, "React", RenderError(faults + 1), "errorInfo")
    /\ faults' = faults + 1
    /\ UNCHANGED <<timers, cycles, orphans, mounted, invocations, returned, delays,
                   outcomes, lateRuns, configVars>>

\* a teardown that cancels what is pending
Unmount_ClearsTimers ==
    /\ mounted
    /\ mounted' = FALSE
    /\ timers' = <<>>
    /\ UNCHANGED <<state, cycles, orphans, invocations, returned, delays,
                   outcomes, faults, lateRuns, configVars>>

\* the page instance is torn down; nothing in the class reacts to it
Unmount ==
    /\ mounted
    /\ mounted' = FALSE
    /\ UNCHANGED <<state, timers, cycles, orphans, invocations, returned, delays,
                   outcomes, faults, lateRuns, configVars>>

Next ==
    \/ \E i \in 1..Len(timers), loaders \in Loaders : loadPageData(i, loaders)
    \/ \E c \in cycles, j \in 1..MaxOps : OpResolve(c, j)
    \/ \E c \in cycles, j \in 1..MaxOps : OpReject(c, j)
    \/ OrphanSettles
    \/ componentDidCatch
    \/ Unmount

Spec == Init /\ [][Next]_vars

\* a pending setTimeout callback runs
TimerFires == \E i \in 1..Len(timers), loaders \in Loaders : loadPageData(i, loaders)

\* a promise of a load cycle in progress settles
OpSettles == \E c \in cycles, j \in 1..MaxOps : OpResolve(c, j) \/ OpReject(c, j)

\* every timer fires and every operation of a cycle settles
FairSpec == Spec /\ WF_vars(TimerFires) /\ WF_vars(OpSettles)

\* ------------------------------------------- federatedConfig on its own
ConfigInit ==
    /\ PageInit
    /\ cfgIn \in [template : Templates, param : Params, config : Configs]
    /\ cfgOut = NotDerived

\* a tenant page calls federatedConfig()
DeriveConfig ==
    /\ ~cfgOut.called
    /\ cfgOut' = federatedConfig(cfgIn)
    /\ UNCHANGED <<cfgIn, pageVars>>

ConfigNext == DeriveConfig

ConfigSpec == ConfigInit /\ [][ConfigNext]_vars

\* ------------------------------------------------------- history predicates
Result(k) == outcomes[k]

\* the first n load cycles have all failed
FirstFailed(n) ==
    /\ Len(outcomes) >= n
    /\ \A k \in 1..n : Result(k) = "fail"

\* this step is the failure of a load cycle (its aggregate rejects)
FailStep ==
    \E k \in DOMAIN outcomes : Result(k) = "pending" /\ outcomes'[k] = "fail"

\* this step is a run of loadPageData
InvokeStep == invocations' = invocations + 1

\* this step is a rendering fault being handled
FaultStep == faults' = faults + 1

ExpectedDelays == <<100, 200, 400, 800, 1600>>

RECURSIVE SumSeq(_)
SumSeq(seq) == IF seq = <<>> THEN 0 ELSE Head(seq) + SumSeq(Tail(seq))

PendingOps(c) == {j \in DOMAIN c.ops : c.ops[j] = "pending"}

\* ----------------------------------------------------------------------- C1
\* C1: a producer whose cycles all fail is invoked exactly 6 times and retried
\* exactly 5 times: after the 6th failure the page is in the error state with
\* no timer and no cycle left, a Server error is recorded no earlier than
\* that, and there is never a 6th retry timer nor a 7th invocation.
C1_SixAttemptsThenError ==
    /\ invocations <= MAX_RETRIES + 1
    /\ Len(delays) <= MAX_RETRIES
    /\ getRetries(state) <= MAX_RETRIES
    /\ FirstFailed(6) =>
          /\ isError(state)
          /\ faults = 0 => state.error.type = "Server"
          /\ invocations = 6
          /\ getRetries(state) = 5
          /\ Len(delays) = 5
          /\ timers = <<>>
          /\ cycles = {}
    /\ (faults = 0 /\ isError(state)) => FirstFailed(6)
    /\ \A n \in 1..5 :
          (Len(outcomes) = n /\ FirstFailed(n)) =>
              /\ Len(timers) = 1
              /\ getRetries(state) = n
              /\ faults = 0 => ~isError(state)

C1_Witness ==
    /\ FirstFailed(6)
    /\ isError(state)
    /\ invocations = 6
    /\ faults = 0

\* ----------------------------------------------------------------------- C2
\* C2: when the cycles 1 to 4 fail and cycle 5 succeeds the page is no longer
\* loading, pageLoadRetries is 4, isError is not set unless a rendering fault
\* was injected, and the retry delays scheduled sum up to 1500 ms.
C2_FourFailuresThenSuccess ==
    (/\ Len(outcomes) = 5
     /\ FirstFailed(4)
     /\ Result(5) = "ok")
    =>
    /\ ~isLoading(state)
    /\ faults = 0 => ~isError(state)
    /\ getRetries(state) = 4
    /\ Len(delays) = 4
    /\ SumSeq(delays) = 1500
    /\ SumSeq(delays) = BASE_DELAY * (1 + 2 + 4 + 8)
    /\ timers = <<>>
    /\ cycles = {}

C2_Witness ==
    /\ Len(outcomes) = 5
    /\ FirstFailed(4)
    /\ Result(5) = "ok"
    /\ faults = 0
    /\ ~isLoading(state)

\* ----------------------------------------------------------------------- C3
\* C3: a cycle failing at retry count r < 5 makes the count r + 1 and
\* schedules one timer of 100 * 2^r ms; the retry delays scheduled are
\* 100, 200, 400, 800, 1600 in that order and nothing else.
C3_BackoffDelays ==
    /\ [][(FailStep /\ getRetries(state) < 5) =>
            /\ getRetries(state') = getRetries(state) + 1
            /\ timers' = Append(timers, ExpectedDelays[getRetries(state) + 1])
            /\ delays' = Append(delays, ExpectedDelays[getRetries(state) + 1])]_vars
    /\ [](/\ Len(delays) <= 5
          /\ \A k \in 1..Len(delays) : delays[k] = ExpectedDelays[k]
          /\ Len(delays) = getRetries(state)
          /\ \A k \in 1..Len(timers) :
                \/ invocations = 0 /\ timers[k] = INITIAL_DELAY
                \/ invocations > 0 /\ timers[k] = ExpectedDelays[getRetries(state)])

C3_Witness == delays = <<100, 200, 400, 800, 1600>>

\* ----------------------------------------------------------------------- C4
\* C4: isLoading goes from true to false only in the step in which the last
\* pending operation of the running cycle resolves (or in a run of
\* loadPageData that got no operations); a cycle that fails leaves isLoading
\* true, also while other operations of it are still pending; a cycle of any
\* operation count whose operations all resolve ends with isLoading false.
C4_AllOrNothing ==
    /\ [][(isLoading(state) /\ ~isLoading(state')) =>
            \/ \E c \in cycles :
                  /\ Cardinality(PendingOps(c)) = 1
                  /\ \A c2 \in cycles' : c2.attempt # c.attempt
                  /\ outcomes'[c.attempt] = "ok"
            \/ /\ InvokeStep
               /\ returned'.n = 0]_vars
    /\ [][FailStep => (isLoading(state) /\ isLoading(state'))]_vars
    /\ [](\A c \in cycles : PendingOps(c) # {})
    /\ [](\A k \in DOMAIN outcomes :
             Result(k) = "ok" =>
                /\ k = Len(outcomes)
                /\ ~isLoading(state)
                /\ faults = 0 => ~isError(state)
                /\ timers = <<>> /\ cycles = {})
    /\ [](\A k \in DOMAIN outcomes :
             (Result(k) = "fail" /\ k = Len(outcomes)) => isLoading(state))

\* two operations resolved in the last cycle, after a cycle that failed fast
\* while its other operation was still pending
C4_Witness ==
    /\ Len(outcomes) >= 2
    /\ Result(1) = "fail"
    /\ returned = [kind |-> "array", n |-> 2]
    /\ Result(Len(outcomes)) = "ok"
    /\ orphans > 0
    /\ ~isLoading(state)

\* ----------------------------------------------------------------------- C5
\* C5: a run of loadPageData in which the producer returns null or an empty
\* array sets isLoading to false in that very step, starts no cycle and
\* schedules no timer; when it is the first run the page is in the success
\* state with a retry count of 0.
C5_NoOperations ==
    /\ []((invocations >= 1 /\ returned.n = 0) =>
             /\ Len(outcomes) = invocations
             /\ Result(invocations) = "empty"
             /\ ~isLoading(state)
             /\ timers = <<>>
             /\ cycles = {})
    /\ [](\A k \in DOMAIN outcomes :
             Result(k) = "empty" => (k = invocations /\ returned.n = 0))
    /\ []((invocations = 1 /\ returned.n = 0) =>
             /\ outcomes = <<"empty">>
             /\ getRetries(state) = 0
             /\ delays = <<>>
             /\ faults = 0 => ~isError(state))
    /\ [][(InvokeStep /\ returned'.n = 0) =>
             /\ ~isLoading(state')
             /\ cycles' = cycles
             /\ Len(timers') = Len(timers) - 1
             /\ delays' = delays
             /\ getRetries(state') = getRetries(state)
             /\ isError(state') = isError(state)]_vars

C5_Witness ==
    /\ Len(outcomes) = 1
    /\ returned = [kind |-> "array", n |-> 0]
    /\ ~isLoading(state)
    /\ ~isError(state)
    /\ getRetries(state) = 0

\* ----------------------------------------------------------------------- C6
\* C6: at most one timer or one load cycle exists at a time, never both; the
\* producer is invoked only when no cycle is in progress, the firing timer is
\* the only one, and every earlier cycle has failed.
C6_OneCycleAtATime ==
    /\ [](Len(timers) + Cardinality(cycles) <= 1)
    /\ [][InvokeStep =>
            /\ cycles = {}
            /\ Len(timers) = 1
            /\ timers' = <<>>
            /\ \A k \in DOMAIN outcomes : Result(k) = "fail"]_vars
    /\ [](\A k \in DOMAIN outcomes :
             Result(k) = "pending" =>
                /\ k = Len(outcomes)
                /\ \E c \in cycles : c.attempt = k)

\* a retried cycle in progress
C6_Witness ==
    /\ invocations = 3
    /\ Cardinality(cycles) = 1
    /\ timers = <<>>
    /\ Result(3) = "pending"

\* ----------------------------------------------------------------------- C7
ReactErrorRecorded == isError(state) /\ state.error.type = "React"

\* C7 as stated: once a rendering fault has put the page in the error state,
\* no later loader step changes the retry count, isLoading or the error
\* record, or invokes the producer.
C7_Original ==
    [][(ReactErrorRecorded /\ ~FaultStep) =>
          /\ getRetries(state') = getRetries(state)
          /\ isLoading(state') = isLoading(state)
          /\ state'.error = state.error
          /\ invocations' = invocations]_vars

\* C7 (amended): a rendering fault, in whatever loader state, sets isError
\* with a React error record of that fault in the same step and changes
\* nothing else: the retry count, isLoading, the timers, the cycles and the
\* number of producer invocations stay as they are; isError then stays true
\* for good, while the loader carries on as before.
C7_FaultSetsErrorOnly ==
    /\ [][FaultStep =>
            /\ isError(state')
            /\ state'.error = [error |-> RenderError(faults'),
                               errorMessage |-> "errorInfo", type |-> "React"]
            /\ getRetries(state') = getRetries(state)
            /\ isLoading(state') = isLoading(state)
            /\ timers' = timers
            /\ cycles' = cycles
            /\ invocations' = invocations
            /\ delays' = delays]_vars
    /\ [][isError(state) => isError(state')]_vars
    /\ [][(isError(state) /\ ~FaultStep /\ ~FailStep) => state'.error = state.error]_vars

\* a rendering fault handled while a cycle is in progress, the loader having
\* retried afterwards
C7_Witness ==
    /\ ReactErrorRecorded
    /\ faults = 1
    /\ getRetries(state) = 2
    /\ isLoading(state)
    /\ cycles # {}

\* ----------------------------------------------------------------------- C8
\* C8: a cycle failing at retry count 5 sets isError and records exactly the
\* error of that cycle's rejection with the message "Error loading page
\* data." and type Server; a Server record exists only at retry count 5 and
\* always carries the error of the 6th cycle.
C8_ServerErrorRecord ==
    /\ [][(FailStep /\ getRetries(state) = MAX_RETRIES) =>
            /\ isError(state')
            /\ state'.error.type = "Server"
            /\ state'.error.errorMessage = "Error loading page data."
            /\ state'.error.error.source = "operation"
            /\ state'.error.error.attempt = invocations
            /\ \E c \in cycles :
                  /\ c.attempt = invocations
                  /\ state'.error.error.op \in PendingOps(c)
            /\ getRetries(state') = MAX_RETRIES
            /\ timers' = timers]_vars
    /\ [][(FailStep /\ getRetries(state) < MAX_RETRIES) =>
            /\ isError(state') = isError(state)
            /\ isError(state) => state'.error = state.error]_vars
    /\ []((isError(state) /\ state.error.type = "Server") =>
            /\ getRetries(state) = MAX_RETRIES
            /\ state.error.errorMessage = "Error loading page data."
            /\ state.error.error.attempt = MAX_RETRIES + 1
            /\ FirstFailed(MAX_RETRIES + 1))

C8_Witness ==
    /\ isError(state)
    /\ state.error.type = "Server"
    /\ state.error.error = OpError(6, 2)
    /\ getRetries(state) = 5

\* ----------------------------------------------------------------------- C9
RetryTransition ==
    /\ getRetries(state') = getRetries(state) + 1
    /\ Len(timers') = Len(timers) + 1
    /\ isError(state') = isError(state)

ErrorTransition ==
    /\ getRetries(state') = getRetries(state)
    /\ timers' = timers
    /\ isError(state')
    /\ state'.error.type = "Server"

\* C9: every failure of a load cycle is handled in the step in which the
\* aggregate rejects, by exactly one of the two transitions: a retry (count
\* incremented, one timer scheduled) or the error state; the rejected cycle
\* is gone afterwards and the state is never left as it was.
C9_FailureBecomesTransition ==
    /\ [][FailStep =>
            /\ (RetryTransition \/ ErrorTransition)
            /\ ~(RetryTransition /\ ErrorTransition)
            /\ state' # state
            /\ Cardinality(cycles') = Cardinality(cycles) - 1]_vars
    /\ [](\A k \in DOMAIN outcomes :
             (Result(k) = "fail" /\ k = Len(outcomes)) =>
                \/ Len(timers) = 1
                \/ isError(state))

C9_Witness ==
    /\ FirstFailed(6)
    /\ isError(state)
    /\ state.error.type = "Server"
    /\ timers = <<>>

\* ---------------------------------------------------------------------- C10
ErrorFlag == "isError" \in DOMAIN state /\ state.isError = TRUE

LoadingFlag == "isLoading" \in DOMAIN state /\ state.isLoading = TRUE

\* C10: whenever isError is true the page renders the error view with the
\* recorded error, whatever isLoading is; it renders the spinner exactly
\* when isError is false and isLoading is true, and the page content exactly
\* when both are false.
C10_RenderPrecedence ==
    /\ ErrorFlag =>
          /\ "error" \in DOMAIN state
          /\ render(state) = [view |-> "ErrorPage", error |-> state.error]
    /\ (render(state).view = "ErrorPage") <=> ErrorFlag
    /\ (render(state).view = "Spinner") <=> (~ErrorFlag /\ LoadingFlag)
    /\ (render(state).view = "renderPage") <=> (~ErrorFlag /\ ~LoadingFlag)

\* the error view shown while isLoading is still true
C10_Witness ==
    /\ ErrorFlag
    /\ LoadingFlag
    /\ state.error.type = "Server"
    /\ render(state).view = "ErrorPage"

\* ---------------------------------------------------------------------- C11
\* this step settles a load cycle (its aggregate fulfils or rejects)
SettleStep == \E c \in cycles : \A c2 \in cycles' : c2.attempt # c.attempt

\* C11: until the initial 10 ms timer has fired the producer has not been
\* invoked, that timer is the only thing pending, isLoading is true whatever
\* initializePageState said, the retry count is 0 and no error is recorded
\* unless a rendering fault was handled; the first run of loadPageData is
\* the firing of that timer; and this.state changes only in a run of
\* loadPageData, in the settling of a load cycle or in componentDidCatch.
C11_InitialState ==
    /\ [](invocations = 0 =>
            /\ timers = <<INITIAL_DELAY>>
            /\ cycles = {}
            /\ outcomes = <<>>
            /\ delays = <<>>
            /\ "isLoading" \in DOMAIN state /\ state.isLoading = TRUE
            /\ getRetries(state) = 0
            /\ faults = 0 => (state = [isLoading |-> TRUE] /\ ~isError(state)))
    /\ [][(invocations = 0 /\ InvokeStep) =>
            (timers = <<INITIAL_DELAY>> /\ timers' = <<>>)]_vars
    /\ [][state' # state => (InvokeStep \/ SettleStep \/ FaultStep)]_vars

\* the page as constructed, torn down or not, before the timer has fired
C11_Witness ==
    /\ invocations = 0
    /\ faults = 0
    /\ state = [isLoading |-> TRUE]
    /\ timers = <<INITIAL_DELAY>>
    /\ render(state).view = "Spinner"

\* ---------------------------------------------------------------------- C12
\* str with its first occurrence of pat replaced by the characters of text
Substitute(str, pat, text) ==
    LET i == IndexOf(str, pat) IN
    IF i = 0 THEN str
    ELSE SubSeq(str, 1, i - 1) \o text \o SubSeq(str, i + Len(pat), Len(str))

\* C12: federatedConfig returns the base configuration with artifacts.url
\* being the template + "/registry" with ":tenantId" replaced by the tenant
\* id of the route, and ui.navPrefixPath being "/t/" + tenant id; a missing
\* section stays missing, nothing else changes.
C12_TenantConfig ==
    (cfgOut.called /\ ~cfgOut.threw) =>
        /\ DOMAIN cfgOut.config = DOMAIN cfgIn.config
        /\ "artifacts" \in DOMAIN cfgIn.config =>
              cfgOut.config.artifacts =
                 [cfgIn.config.artifacts EXCEPT
                    !.url = Substitute(cfgIn.template \o RegistrySuffix, Placeholder,
                                       cfgOut.tenantId)]
        /\ "ui" \in DOMAIN cfgIn.config =>
              cfgOut.config.ui =
                 [cfgIn.config.ui EXCEPT !.navPrefixPath = NavPrefix \o cfgOut.tenantId]

Terminal == ~isLoading(state) \/ isError(state)

\* the loader has nothing left to do
Quiescent == timers = <<>> /\ cycles = {}

\* C14 as stated: the page eventually is in the success or the error state
\* after at most 6 producer invocations, and once it is, no timer is pending
\* and the producer is not invoked again.
C14_Original ==
    /\ <>Terminal
    /\ [](invocations <= MAX_RETRIES + 1)
    /\ [](Terminal => timers = <<>>)
    /\ [][Terminal => invocations' = invocations]_vars

\* C14 (amended): when every timer fires and every operation settles, the
\* page eventually has no timer and no cycle left and is then in the success
\* or the error state, after at most 6 producer invocations; from then on no
\* timer is scheduled and the producer is not invoked again. An error state
\* that only a rendering fault has set does not end the loader's run.
C14_Termination ==
    /\ <>[](Quiescent /\ Terminal)
    /\ [](invocations <= MAX_RETRIES + 1)
    /\ [](Quiescent => Terminal)
    /\ []((Terminal /\ faults = 0) => Quiescent)
    /\ [][Quiescent => (Quiescent' /\ invocations' = invocations)]_vars

\* success at the third invocation
C14_Witness ==
    /\ Quiescent
    /\ invocations = 3
    /\ outcomes = <<"fail", "fail", "ok">>
    /\ ~isLoading(state)
    /\ ~isError(state)

\* ---------------------------------------------------------------------- C15
\* C15: the retry count is always within 0..5, never decreases, changes only
\* when a cycle fails and then by exactly 1, and every retried failure raises
\* it; once loadPageData has run, the number of producer invocations is the
\* retry count + 1 when no timer is pending and the retry count when one is.
C15_RetryCount ==
    /\ [](getRetries(state) \in 0..MAX_RETRIES)
    /\ [][getRetries(state') >= getRetries(state)]_vars
    /\ [][getRetries(state') # getRetries(state) =>
            (FailStep /\ getRetries(state') = getRetries(state) + 1)]_vars
    /\ [][(FailStep /\ Len(timers') > Len(timers)) =>
            getRetries(state') = getRetries(state) + 1]_vars
    /\ []((invocations >= 1 /\ timers = <<>>) => invocations = getRetries(state) + 1)
    /\ []((invocations >= 1 /\ timers # <<>>) =>
            (Len(timers) = 1 /\ invocations = getRetries(state)))

\* three failures retried, the third retry timer pending
C15_Witness ==
    /\ invocations = 3
    /\ getRetries(state) = 3
    /\ state.pageLoadRetries = 3
    /\ Len(timers) = 1

\* ---------------------------------------------------------------------- C16
\* C16: isError, once true, stays true; isLoading is false exactly when a
\* load cycle has succeeded, and from then on isLoading stays false, the
\* retry count stays as it is, nothing is pending and the producer is not
\* invoked again.
C16_TerminalStable ==
    /\ [][isError(state) => isError(state')]_vars
    /\ [](~isLoading(state) <=>
            \E k \in DOMAIN outcomes : Result(k) \in {"ok", "empty"})
    /\ [](~isLoading(state) => Quiescent)
    /\ [][~isLoading(state) =>
            /\ ~isLoading(state')
            /\ getRetries(state') = getRetries(state)
            /\ invocations' = invocations
            /\ Quiescent']_vars

\* a cycle succeeded after a rendering fault had been handled: both hold on
C16_Witness ==
    /\ ~isLoading(state)
    /\ isError(state)
    /\ Result(Len(outcomes)) = "ok"
    /\ getRetries(state) = 1
    /\ faults = 2

\* ---------------------------------------------------------------------- C17
\* this.state differs from its value before the step in the given keys only
ChangesOnly(keys) ==
    /\ DOMAIN state \subseteq DOMAIN state'
    /\ \A k \in DOMAIN state' \ keys : k \in DOMAIN state /\ state'[k] = state[k]

\* C17: handling a rendering fault changes the error record and isError and
\* nothing else: not the retry count, not isLoading, no timer, no cycle, no
\* producer invocation; a failure that is retried changes pageLoadRetries
\* and nothing else of this.state, isLoading being true before and after.
C17_Frames ==
    /\ [][FaultStep =>
            /\ ChangesOnly({"error", "isError"})
            /\ getRetries(state') = getRetries(state)
            /\ isLoading(state') = isLoading(state)
            /\ UNCHANGED <<timers, cycles, orphans, invocations, delays, outcomes>>]_vars
    /\ [][(FailStep /\ getRetries(state) < MAX_RETRIES) =>
            /\ ChangesOnly({"pageLoadRetries"})
            /\ getRetries(state') # getRetries(state)
            /\ isLoading(state) /\ isLoading(state')
            /\ isError(state') = isError(state)]_vars

\* a rendering fault handled between two retried failures
C17_Witness ==
    /\ ReactErrorRecorded
    /\ faults = 1
    /\ getRetries(state) = 3
    /\ Len(timers) = 1
    /\ isLoading(state)

\* ---------------------------------------------------------------------- C18
ServerErrorRecorded == isError(state) /\ state.error.type = "Server"

\* C18: whenever a Server error is recorded, isLoading is still true and the
\* retry count is 5; the page shows the error view, and would show the
\* spinner if isError were not tested first.
C18_GiveUpKeepsLoading ==
    ServerErrorRecorded =>
        /\ "isLoading" \in DOMAIN state /\ state.isLoading = TRUE
        /\ getRetries(state) = MAX_RETRIES
        /\ Quiescent
        /\ render(state).view = "ErrorPage"
        /\ render(setSingleState(state, "isError", FALSE)).view = "Spinner"

C18_Witness ==
    /\ ServerErrorRecorded
    /\ faults = 0
    /\ state.isLoading = TRUE
    /\ invocations = 6
    /\ orphans = 0

====
